---------------------------- MODULE Spec2Model ----------------------------
(***************************************************************************)
(* Rainwater harvest and PVC durability simulator (naomi.py).              *)
(*                                                                         *)
(* The script is a Streamlit page: every widget interaction re-runs the    *)
(* whole script on the widgets' current values.  The numeric core is the   *)
(* harvest calculation (lines 117-121), the PVC integrity projection       *)
(* (lines 145-150) and the tank classification (lines 163-167).            *)
(*                                                                         *)
(* Numbers: the script's float64 values are modelled as exact rationals    *)
(* <<n, d>> in lowest terms with d > 0.  exp() cannot be tabulated         *)
(* exactly, so a value c * e^x is kept in its exact symbolic form          *)
(* [coef |-> c, exponent |-> x]; order comparisons on such values use      *)
(* that e^x is strictly increasing.                                        *)
(***************************************************************************)
EXTENDS Integers, Sequences, FiniteSets, TLC

VARIABLES
    roof_area,                   \* number_input "Roof Surface Area" (rational)
    efficiency,                  \* slider / 100.0 (rational)
    deg_coeff,                   \* slider, degradation coefficient (rational)
    service_years,               \* slider, projection period (integer)
    rain_editor,                 \* edits held under key "rain_editor": cell -> value
    rain_df,                     \* the rainfall table of the last run
    annual_volume_l,             \* rational
    annual_volume_m3,            \* rational
    cumulative_rain_m_per_year,  \* sequence of rationals
    pvc_df,                      \* sequence of [Year, Integrity]
    state,                       \* tank guidance: "Within" | "Above" | "Below"
    outcome                      \* per section: "pending" | "returned" | "ValueError"

vars == <<roof_area, efficiency, deg_coeff, service_years, rain_editor, rain_df,
          annual_volume_l, annual_volume_m3, cumulative_rain_m_per_year, pvc_df,
          state, outcome>>

---------------------------------------------------------------------------
(* Exact rational arithmetic standing for the script's float arithmetic.   *)

Abs(n) == IF n < 0 THEN -n ELSE n

RECURSIVE GCD(_, _)
GCD(a, b) == IF b = 0 THEN a ELSE GCD(b, a % b)

\* n/d in lowest terms with a positive denominator (d # 0)
Norm(n, d) ==
    LET g == GCD(Abs(n), Abs(d))
        s == IF d < 0 THEN -1 ELSE 1
    IN  <<(s * n) \div g, (s * d) \div g>>

Rat(n) == <<n, 1>>
\* over the least common denominator, so that intermediate products stay small
RAdd(a, b) ==
    LET g == GCD(a[2], b[2])
    IN  Norm(a[1] * (b[2] \div g) + b[1] * (a[2] \div g), a[2] * (b[2] \div g))
RNeg(a) == <<-a[1], a[2]>>
RMul(a, b) ==
    \* cross-cancel first so that intermediate products stay small
    LET g1 == GCD(Abs(a[1]), b[2])
        g2 == GCD(Abs(b[1]), a[2])
        h1 == IF g1 = 0 THEN 1 ELSE g1
        h2 == IF g2 = 0 THEN 1 ELSE g2
    IN  Norm((a[1] \div h1) * (b[1] \div h2), (a[2] \div h2) * (b[2] \div h1))
RDiv(a, b) == RMul(a, Norm(b[2], b[1]))
RLeq(a, b) ==
    LET g == GCD(a[2], b[2]) IN a[1] * (b[2] \div g) <= b[1] * (a[2] \div g)
RLess(a, b) ==
    LET g == GCD(a[2], b[2]) IN a[1] * (b[2] \div g) < b[1] * (a[2] \div g)

\* an array or column held as a sequence, its elements computed once
AsArray(f) == f \o <<>>

---------------------------------------------------------------------------
(* A value c * e^x produced by np.exp, kept exactly.                       *)

NpExp(x) == [coef |-> 1, exponent |-> x]
ExpScale(c, v) == [coef |-> c * v.coef, exponent |-> v.exponent]

\* a < b for two values with the same positive coefficient
ExpLess(a, b) ==
    CASE a.coef = b.coef /\ a.coef > 0 -> RLess(a.exponent, b.exponent)
      [] a.coef = b.coef /\ a.coef < 0 -> RLess(b.exponent, a.exponent)
      [] a.coef = b.coef /\ a.coef = 0 -> FALSE
      [] a.coef <= 0 /\ b.coef > 0 -> TRUE
      [] a.coef >= 0 /\ b.coef <= 0 -> FALSE
\* v > 0
ExpPositive(v) == v.coef > 0
\* v <= n for an integer n > 0
ExpLeqInt(v, n) ==
    CASE v.coef <= 0 -> TRUE
      [] v.coef = n -> RLeq(v.exponent, Rat(0))
      [] v.coef > 0 /\ v.coef < n /\ RLeq(v.exponent, Rat(0)) -> TRUE
      [] v.coef > n /\ RLeq(Rat(0), v.exponent) -> FALSE

---------------------------------------------------------------------------
(* The default rainfall table and the data editor.                         *)

NumMonths == 12

MonthNames ==
    <<"Jan", "Feb", "Mar", "Apr", "May", "Jun",
      "Jul", "Aug", "Sep", "Oct", "Nov", "Dec">>

DefaultRainfall_mm == <<8, 23, 46, 89, 137, 193, 155, 127, 183, 140, 33, 10>>

\* Rainy_Days in tenths of a day: 1.8, 3.0, 7.5, ...
DefaultRainyDaysTenths == <<18, 30, 75, 130, 178, 202, 165, 154, 206, 174, 51, 20>>

DEFAULT_RAIN ==
    AsArray([i \in 1..Len(DefaultRainfall_mm) |->
        [Month |-> MonthNames[i],
         Rainfall_mm |-> Rat(DefaultRainfall_mm[i]),
         Rainy_Days |-> Norm(DefaultRainyDaysTenths[i], 10)]])

\* st.data_editor(pd.DataFrame(DEFAULT_RAIN), num_rows="fixed", key="rain_editor"):
\* a fresh frame of the defaults with the cells edited so far overwritten.
\* A cell is <<row, column>>; rows cannot be added, removed or reordered.
DataEditor(default, edits) ==
    AsArray([i \in 1..Len(default) |->
        [Month |-> default[i].Month,
         Rainfall_mm |-> IF <<i, "Rainfall_mm">> \in DOMAIN edits
                           THEN edits[<<i, "Rainfall_mm">>]
                           ELSE default[i].Rainfall_mm,
         Rainy_Days |-> IF <<i, "Rainy_Days">> \in DOMAIN edits
                          THEN edits[<<i, "Rainy_Days">>]
                          ELSE default[i].Rainy_Days]])

---------------------------------------------------------------------------
(* Rainwater collection calculation, lines 117-121.                        *)

\* millimetres divided by 100 (centimetres taken for metres)
AddRainfall_mPer100(df) ==
    AsArray([i \in 1..Len(df) |->
        [Month |-> df[i].Month,
         Rainfall_mm |-> df[i].Rainfall_mm,
         Rainy_Days |-> df[i].Rainy_Days,
         Rainfall_m |-> RDiv(df[i].Rainfall_mm, Rat(100))]])

\* rain_df["Rainfall_m"] = rain_df["Rainfall_mm"] / 1000.0
AddRainfall_m(df) ==
    AsArray([i \in 1..Len(df) |->
        [Month |-> df[i].Month,
         Rainfall_mm |-> df[i].Rainfall_mm,
         Rainy_Days |-> df[i].Rainy_Days,
         Rainfall_m |-> RDiv(df[i].Rainfall_mm, Rat(1000))]])

\* the factor 1000 (cubic metres to litres) left out
CollectedLitresNoScale(roof, rain_m, eff) == RMul(RMul(roof, rain_m), eff)

\* the monthly volume cut to whole litres
CollectedLitresWhole(roof, rain_m, eff) ==
    LET v == RMul(RMul(RMul(roof, rain_m), eff), Rat(1000))
    IN  Rat(v[1] \div v[2])

\* roof_area * rain_df["Rainfall_m"] * efficiency * 1000, evaluated left to right
CollectedLitres(roof, rain_m, eff) ==
    RMul(RMul(RMul(roof, rain_m), eff), Rat(1000))

\* rain_df["Collected_L"] = ...
AddCollected_L(df, roof, eff) ==
    AsArray([i \in 1..Len(df) |->
        [Month |-> df[i].Month,
         Rainfall_mm |-> df[i].Rainfall_mm,
         Rainy_Days |-> df[i].Rainy_Days,
         Rainfall_m |-> df[i].Rainfall_m,
         Collected_L |-> CollectedLitres(roof, df[i].Rainfall_m, eff)]])

RECURSIVE SumFrom(_, _, _)
SumFrom(a, i, acc) ==
    IF i > Len(a) THEN acc ELSE SumFrom(a, i + 1, RAdd(acc, a[i]))

\* Series.sum()
SeriesSum(a) == SumFrom(a, 1, Rat(0))

\* rain_df["Collected_L"].sum()
AnnualVolumeL(df) == SeriesSum(AsArray([i \in 1..Len(df) |-> df[i].Collected_L]))

\* annual_volume_l / 1000
AnnualVolumeM3(annual) == RDiv(annual, Rat(1000))

\* lines 117-118 applied to the editor's frame
HarvestFrame(table, roof, eff) == AddCollected_L(AddRainfall_m(table), roof, eff)

---------------------------------------------------------------------------
(* PVC degradation projection, lines 145-150.                              *)

\* rain_df["Rainfall_m"].values
MonthlyRainM(df) == AsArray([i \in 1..Len(df) |-> df[i].Rainfall_m])

\* np.tile(a, reps) for reps >= 0: a repeated reps times end to end
RECURSIVE NpTile(_, _)
NpTile(a, reps) == IF reps <= 0 THEN <<>> ELSE a \o NpTile(a, reps - 1)

\* np.cumsum(a): running totals, out[j] = out[j - 1] + a[j] from left to right.
\* The range lo..hi is walked in two halves, the left half's last total carried
\* into the right half, so that the evaluation stays shallow on long arrays.
RECURSIVE CumsumRange(_, _, _, _)
CumsumRange(a, lo, hi, carry) ==
    IF lo > hi THEN <<>>
    ELSE IF lo = hi THEN <<RAdd(carry, a[lo])>>
    ELSE CHOOSE out \in
            {left \o CumsumRange(a, ((lo + hi) \div 2) + 1, hi, left[Len(left)]) :
                left \in {CumsumRange(a, lo, (lo + hi) \div 2, carry)}} : TRUE

\* the running total left out: each year sees its own months only
NpCumsumMissing(a) == a

NpCumsum(a) == CumsumRange(a, 1, Len(a), Rat(0))

\* ndarray.reshape(rows, cols) of an array of `size` elements: possible only
\* when the sizes agree
ReshapeOk(size, rows, cols) == rows >= 0 /\ size = rows * cols

Reshape(a, rows, cols) ==
    AsArray([r \in 1..rows |-> AsArray([c \in 1..cols |-> a[(r - 1) * cols + c]])])

\* m[:, 0]: the first month of each year instead of the last
FirstColumn(m) == AsArray([r \in 1..Len(m) |-> m[r][1]])

\* m[:, -1]
LastColumn(m) == AsArray([r \in 1..Len(m) |-> m[r][Len(m[r])]])

\* np.cumsum(np.tile(monthly_rain_m, service_years)).reshape(service_years, 12)[:, -1]
CumulativeRainPerYear(monthly, yrs) ==
    LastColumn(Reshape(NpCumsum(NpTile(monthly, yrs)), yrs, NumMonths))

\* the minus sign left out of the exponent
IntegrityNoMinus(k, cum) ==
    AsArray([y \in 1..Len(cum) |-> ExpScale(100, NpExp(RMul(k, cum[y])))])

\* 100 * np.exp(-deg_coeff * cumulative_rain_m_per_year)
Integrity(k, cum) ==
    AsArray([y \in 1..Len(cum) |-> ExpScale(100, NpExp(RMul(RNeg(k), cum[y])))])

\* np.arange(1, service_years + 1)
Years(yrs) == AsArray([y \in 1..(IF yrs > 0 THEN yrs ELSE 0) |-> y])

\* pd.DataFrame({"Year": years, "PVC Integrity %": integrity})
PvcFrame(ys, integ) ==
    AsArray([i \in 1..Len(ys) |-> [Year |-> ys[i], Integrity |-> integ[i]]])

\* line 146 raises ValueError when np.tile is given a negative repeat count
\* or when the tiled array (np.cumsum keeps its size, Len(monthly) * yrs)
\* does not reshape to (service_years, 12)
ProjectionRaises(monthly, yrs) ==
    \/ yrs < 0
    \/ ~ReshapeOk(Len(monthly) * yrs, yrs, NumMonths)

---------------------------------------------------------------------------
(* Tank size recommendation, lines 163-167.                                *)

REC_MIN_L == 140000
REC_MAX_L == 280000

\* the upper end of the band taken as exclusive
TankStateExclusiveMax(annual) ==
    IF RLeq(Rat(REC_MIN_L), annual) /\ RLess(annual, Rat(REC_MAX_L))
    THEN "Within"
    ELSE IF RLeq(Rat(REC_MAX_L), annual) THEN "Above" ELSE "Below"

TankState(annual) ==
    IF RLeq(Rat(REC_MIN_L), annual) /\ RLeq(annual, Rat(REC_MAX_L))
    THEN "Within"
    ELSE IF RLess(Rat(REC_MAX_L), annual) THEN "Above" ELSE "Below"


---------------------------------------------------------------------------
(* One run of the script, top to bottom, on the widgets' current values.   *)

Sections == {"compute_harvest", "project_integrity", "classify_tank_fit"}

\* what one run leaves behind; line 146 is the only line that can raise, and
\* a raise there ends the run before the tank guidance is computed
ScriptRun(roof, eff, k, yrs, edits) ==
    LET df == HarvestFrame(DataEditor(DEFAULT_RAIN, edits), roof, eff)
        annual == AnnualVolumeL(df)
        monthly == MonthlyRainM(df)
        raises == ProjectionRaises(monthly, yrs)
        cum == IF raises THEN <<>> ELSE CumulativeRainPerYear(monthly, yrs)
    IN  [rain_df |-> df,
         annual_volume_l |-> annual,
         annual_volume_m3 |-> AnnualVolumeM3(annual),
         cumulative_rain_m_per_year |-> cum,
         pvc_df |-> IF raises THEN <<>> ELSE PvcFrame(Years(yrs), Integrity(k, cum)),
         state |-> IF raises THEN "" ELSE TankState(annual),
         outcome |-> [s \in Sections |->
                        IF s = "compute_harvest" THEN "returned"
                        ELSE IF raises
                             THEN (IF s = "project_integrity" THEN "ValueError" ELSE "pending")
                             ELSE "returned"]]

---------------------------------------------------------------------------
(* The page: widget domains explored, initial state, interactions.         *)

\* model bounds
MaxYears == 3        \* the projection slider, 25 at first, is moved within 1..MaxYears
MaxEditedCells == 2  \* at most this many cells of the table differ from the defaults

\* number_input, min 10.0, max 10000.0, default 250.0
RoofAreas == {Rat(250), Rat(500)}
\* slider 50..100 step 1, default 85, divided by 100.0
EfficiencyPercents == {50, 85}
\* slider 0.005..0.10 step 0.005, default 0.04, in thousandths
DegCoeffThousandths == {5, 40}
\* editable rows and the values typed into them (the editor sets no range)
EditRows == {1, 6, 12}
RainfallEdits == {Rat(0 - 951), Rat(49)}
RainyDaysEdits == {Rat(0)}

NoEdits == [c \in {} |-> Rat(0)]

Init ==
    \E r \in {ScriptRun(Rat(250), Norm(85, 100), Norm(40, 1000), 25, NoEdits)} :
        /\ roof_area = Rat(250)
        /\ efficiency = Norm(85, 100)
        /\ deg_coeff = Norm(40, 1000)
        /\ service_years = 25
        /\ rain_editor = NoEdits
        /\ rain_df = r.rain_df
        /\ annual_volume_l = r.annual_volume_l
        /\ annual_volume_m3 = r.annual_volume_m3
        /\ cumulative_rain_m_per_year = r.cumulative_rain_m_per_year
        /\ pvc_df = r.pvc_df
        /\ state = r.state
        /\ outcome = r.outcome

\* a re-run that keeps the last projection while the coefficient and the
\* horizon are the same, whatever happened to the table
RerunCachedProjection(roof, eff, k, yrs, edits) ==
    \E r \in {ScriptRun(roof, eff, k, yrs, edits)} :
        /\ roof_area' = roof
        /\ efficiency' = eff
        /\ deg_coeff' = k
        /\ service_years' = yrs
        /\ rain_editor' = edits
        /\ rain_df' = r.rain_df
        /\ annual_volume_l' = r.annual_volume_l
        /\ annual_volume_m3' = r.annual_volume_m3
        /\ cumulative_rain_m_per_year' =
              IF k = deg_coeff /\ yrs = service_years
              THEN cumulative_rain_m_per_year ELSE r.cumulative_rain_m_per_year
        /\ pvc_df' = IF k = deg_coeff /\ yrs = service_years THEN pvc_df ELSE r.pvc_df
        /\ state' = r.state
        /\ outcome' = r.outcome

\* Streamlit re-runs the script after a widget changed
Rerun(roof, eff, k, yrs, edits) ==
    \E r \in {ScriptRun(roof, eff, k, yrs, edits)} :
        /\ roof_area' = roof
        /\ efficiency' = eff
        /\ deg_coeff' = k
        /\ service_years' = yrs
        /\ rain_editor' = edits
        /\ rain_df' = r.rain_df
        /\ annual_volume_l' = r.annual_volume_l
        /\ annual_volume_m3' = r.annual_volume_m3
        /\ cumulative_rain_m_per_year' = r.cumulative_rain_m_per_year
        /\ pvc_df' = r.pvc_df
        /\ state' = r.state
        /\ outcome' = r.outcome

SetRoofArea ==
    \E v \in RoofAreas :
        /\ v # roof_area
        /\ Rerun(v, efficiency, deg_coeff, service_years, rain_editor)

SetEfficiency ==
    \E p \in EfficiencyPercents :
        /\ Norm(p, 100) # efficiency
        /\ Rerun(roof_area, Norm(p, 100), deg_coeff, service_years, rain_editor)

SetDegCoeff ==
    \E t \in DegCoeffThousandths :
        /\ Norm(t, 1000) # deg_coeff
        /\ Rerun(roof_area, efficiency, Norm(t, 1000), service_years, rain_editor)

SetServiceYears ==
    \E n \in 1..MaxYears :
        /\ n # service_years
        /\ Rerun(roof_area, efficiency, deg_coeff, n, rain_editor)

WithEdit(edits, cell, v) ==
    [c \in DOMAIN edits \cup {cell} |-> IF c = cell THEN v ELSE edits[c]]

EditRainfall ==
    \E i \in EditRows, v \in RainfallEdits :
        LET cell == <<i, "Rainfall_mm">> IN
        /\ cell \in DOMAIN rain_editor \/ Cardinality(DOMAIN rain_editor) < MaxEditedCells
        /\ DataEditor(DEFAULT_RAIN, rain_editor)[i].Rainfall_mm # v
        /\ Rerun(roof_area, efficiency, deg_coeff, service_years,
                 WithEdit(rain_editor, cell, v))

EditRainyDays ==
    \E i \in EditRows, v \in RainyDaysEdits :
        LET cell == <<i, "Rainy_Days">> IN
        /\ cell \in DOMAIN rain_editor \/ Cardinality(DOMAIN rain_editor) < MaxEditedCells
        /\ DataEditor(DEFAULT_RAIN, rain_editor)[i].Rainy_Days # v
        /\ Rerun(roof_area, efficiency, deg_coeff, service_years,
                 WithEdit(rain_editor, cell, v))

Next ==
    \/ SetRoofArea
    \/ SetEfficiency
    \/ SetDegCoeff
    \/ SetServiceYears
    \/ EditRainfall
    \/ EditRainyDays

Spec == Init /\ [][Next]_vars


---------------------------------------------------------------------------
(* The three sections applied as functions to arguments the page's widgets *)
(* would not produce: tables of 11 or 13 rows, a horizon of 0 or less, any *)
(* annual volume.  The arguments are drawn in the initial state.           *)

ExtraRow == [Month |-> "Extra", Rainfall_mm |-> Rat(10), Rainy_Days |-> Rat(2)]

CoreTables ==
    {DEFAULT_RAIN,
     SubSeq(DEFAULT_RAIN, 1, Len(DEFAULT_RAIN) - 1),
     DEFAULT_RAIN \o <<ExtraRow>>,
     DataEditor(DEFAULT_RAIN, WithEdit(NoEdits, <<6, "Rainfall_mm">>, Rat(49)))}

CoreRoofAreas == {Rat(140), Rat(250)}
CoreEfficiencyPercents == {85, 100}
CoreYears == (0 - 1)..MaxYears

AnnualInputs ==
    {Rat(0 - 5), Rat(0), Norm(139999999, 1000), Rat(140000), Rat(243100),
     Rat(280000), Norm(280000001, 1000), Rat(500000)}

InitCore ==
    /\ rain_df \in CoreTables
    /\ roof_area \in CoreRoofAreas
    /\ efficiency \in {Norm(p, 100) : p \in CoreEfficiencyPercents}
    /\ deg_coeff \in {Norm(t, 1000) : t \in DegCoeffThousandths}
    /\ service_years \in CoreYears
    /\ rain_editor = NoEdits
    /\ annual_volume_l = Rat(0)
    /\ annual_volume_m3 = Rat(0)
    /\ cumulative_rain_m_per_year = <<>>
    /\ pvc_df = <<>>
    /\ state = ""
    /\ outcome = [s \in Sections |-> "pending"]

\* lines 117-121 on the table given
CoreComputeHarvest ==
    /\ \A s \in Sections : outcome[s] = "pending"
    /\ \E df \in {HarvestFrame(rain_df, roof_area, efficiency)} :
          /\ rain_df' = df
          /\ annual_volume_l' = AnnualVolumeL(df)
          /\ annual_volume_m3' = AnnualVolumeM3(AnnualVolumeL(df))
    /\ outcome' = [outcome EXCEPT !["compute_harvest"] = "returned"]
    /\ UNCHANGED <<roof_area, efficiency, deg_coeff, service_years, rain_editor,
                   cumulative_rain_m_per_year, pvc_df, state>>

\* lines 145-150; line 145 reads the column line 117 wrote
CoreProjectIntegrity ==
    /\ outcome["compute_harvest"] = "returned"
    /\ outcome["project_integrity"] = "pending"
    /\ IF ProjectionRaises(MonthlyRainM(rain_df), service_years)
       THEN /\ outcome' = [outcome EXCEPT !["project_integrity"] = "ValueError"]
            /\ UNCHANGED <<cumulative_rain_m_per_year, pvc_df>>
       ELSE \E cum \in {CumulativeRainPerYear(MonthlyRainM(rain_df), service_years)} :
            /\ cumulative_rain_m_per_year' = cum
            /\ pvc_df' = PvcFrame(Years(service_years), Integrity(deg_coeff, cum))
            /\ outcome' = [outcome EXCEPT !["project_integrity"] = "returned"]
    /\ UNCHANGED <<roof_area, efficiency, deg_coeff, service_years, rain_editor,
                   rain_df, annual_volume_l, annual_volume_m3, state>>

\* lines 163-167 on the harvest's annual volume, or on a volume the caller gives
CoreClassifyTankFit ==
    /\ outcome["classify_tank_fit"] = "pending"
    /\ \E a \in (IF outcome["compute_harvest"] = "returned"
                 THEN {annual_volume_l} ELSE AnnualInputs) :
          /\ annual_volume_l' = a
          /\ state' = TankState(a)
    /\ outcome' = [outcome EXCEPT !["classify_tank_fit"] = "returned"]
    /\ UNCHANGED <<roof_area, efficiency, deg_coeff, service_years, rain_editor,
                   rain_df, annual_volume_m3, cumulative_rain_m_per_year, pvc_df>>

NextCore ==
    \/ CoreComputeHarvest
    \/ CoreProjectIntegrity
    \/ CoreClassifyTankFit

SpecCore == InitCore /\ [][NextCore]_vars


---------------------------------------------------------------------------
(* Properties.                                                             *)

\* the table the editor currently shows, read off the defaults and the edits
CurrentRainfall_mm(i) ==
    IF <<i, "Rainfall_mm">> \in DOMAIN rain_editor
    THEN rain_editor[<<i, "Rainfall_mm">>] ELSE Rat(DefaultRainfall_mm[i])

CurrentRainyDays(i) ==
    IF <<i, "Rainy_Days">> \in DOMAIN rain_editor
    THEN rain_editor[<<i, "Rainy_Days">>] ELSE Norm(DefaultRainyDaysTenths[i], 10)

\* a[1] + ... + a[n], summed from the far end
RECURSIVE TotalOfFirst(_, _)
TotalOfFirst(a, n) == IF n = 0 THEN Rat(0) ELSE RAdd(TotalOfFirst(a, n - 1), a[n])

AnnualRainfall_mm == TotalOfFirst([i \in 1..12 |-> CurrentRainfall_mm(i)], 12)

IsPositive(r) == r[1] > 0
IsNegative(r) == r[1] < 0

SomeMonthPositive == \E i \in 1..12 : IsPositive(CurrentRainfall_mm(i))
SomeMonthNegative == \E i \in 1..12 : IsNegative(CurrentRainfall_mm(i))

StrictlyDecreasingIntegrity ==
    \A y \in 1..(Len(pvc_df) - 1) :
        ExpLess(pvc_df[y + 1].Integrity, pvc_df[y].Integrity)

IntegrityWithinBounds ==
    \A y \in 1..Len(pvc_df) :
        ExpPositive(pvc_df[y].Integrity) /\ ExpLeqInt(pvc_df[y].Integrity, 100)

\* C1: once a volume has been classified, the guidance is exactly one of
\* Within, Above, Below; it is Within exactly when 140000 <= annual <= 280000,
\* Above exactly when annual > 280000, Below exactly when annual < 140000.
C1_TankClassification ==
    outcome["classify_tank_fit"] = "returned" =>
        LET n == annual_volume_l[1]
            d == annual_volume_l[2]
        IN  /\ state \in {"Within", "Above", "Below"}
            /\ (state = "Within") <=> (140000 * d <= n /\ n <= 280000 * d)
            /\ (state = "Above") <=> (n > 280000 * d)
            /\ (state = "Below") <=> (n < 140000 * d)

\* C1 witness: the upper end of the band itself has been classified Within
C1_Witness ==
    /\ outcome["classify_tank_fit"] = "returned"
    /\ annual_volume_l = Rat(280000)
    /\ state = "Within"

\* C2: the run leaves 12 monthly volumes, row i holding
\* roof_area * rainfall_mm[i] * efficiency for the table's row i; the annual
\* volume is their sum and the cubic-metre figure is that sum over 1000.
C2_HarvestFormula ==
    /\ Len(rain_df) = 12
    /\ \A i \in 1..12 :
          /\ rain_df[i].Month = MonthNames[i]
          /\ rain_df[i].Collected_L =
                RMul(RMul(roof_area, CurrentRainfall_mm(i)), efficiency)
    /\ annual_volume_l = TotalOfFirst([i \in 1..12 |-> rain_df[i].Collected_L], 12)
    /\ RMul(annual_volume_m3, Rat(1000)) = annual_volume_l

\* C2 witness: June edited to 49 mm under a 500 m2 roof at 50 %: 12250 L
C2_Witness ==
    /\ roof_area = Rat(500)
    /\ efficiency = Norm(1, 2)
    /\ CurrentRainfall_mm(6) = Rat(49)
    /\ rain_df[6].Collected_L = Rat(12250)

\* C3 as stated: with at least one positive month and k > 0 the integrity
\* is strictly decreasing from year 1 to service_years.
C3_Original ==
    (SomeMonthPositive /\ IsPositive(deg_coeff)) => StrictlyDecreasingIntegrity

\* C3 amended: with a positive annual rainfall total (the 12 months summed)
\* and k > 0 the integrity is strictly decreasing from year 1 to service_years.
C3_Amended ==
    (IsPositive(AnnualRainfall_mm) /\ IsPositive(deg_coeff)) => StrictlyDecreasingIntegrity

\* C3 witness: a three-year projection over a table with a negative month
\* whose annual total is still positive
C3_Witness ==
    /\ service_years = 3
    /\ Len(pvc_df) = 3
    /\ SomeMonthNegative
    /\ IsPositive(AnnualRainfall_mm)
    /\ ExpLess(pvc_df[3].Integrity, pvc_df[1].Integrity)

\* C4 as stated: for every table, every k and every year the integrity is
\* above 0 and at most 100.
C4_Original == IntegrityWithinBounds

\* C4 amended: for every table whose annual rainfall total is not negative,
\* every k of the slider and every year the integrity is above 0 and at most 100.
C4_Amended == ~IsNegative(AnnualRainfall_mm) => IntegrityWithinBounds

\* C4 witness: a projection of two or more years over a table whose total is
\* not negative although a month is
C4_Witness ==
    /\ service_years >= 2
    /\ Len(pvc_df) = service_years
    /\ SomeMonthNegative
    /\ ~IsNegative(AnnualRainfall_mm)
    /\ ExpLeqInt(pvc_df[service_years].Integrity, 100)

C7_Inputs ==
    /\ roof_area = Rat(250)
    /\ efficiency = Norm(85, 100)
    /\ \A i \in 1..12 :
          CurrentRainfall_mm(i) =
              Rat(<<8, 23, 46, 89, 137, 193, 155, 127, 183, 140, 33, 10>>[i])

\* C7 as stated: with a 250 m2 roof, 85 % and the default profile (1144 mm a
\* year) the annual volume is 243400 L and the guidance is Within.
C7_Original ==
    C7_Inputs => /\ AnnualRainfall_mm = Rat(1144)
                 /\ annual_volume_l = Rat(243400)
                 /\ state = "Within"

\* C7 amended: with a 250 m2 roof, 85 % and the default profile (1144 mm a
\* year) the annual volume is 250 * 0.85 * 1144 = 243100 L and the guidance
\* is Within.
C7_Amended ==
    C7_Inputs => /\ AnnualRainfall_mm = Rat(1144)
                 /\ annual_volume_l = Rat(243100)
                 /\ state = "Within"

\* C7 witness: the page as first shown
C7_Witness ==
    /\ roof_area = Rat(250)
    /\ efficiency = Norm(85, 100)
    /\ rain_editor = NoEdits
    /\ annual_volume_l = Rat(243100)
    /\ annual_volume_m3 = Norm(2431, 10)
    /\ state = "Within"

\* the three columns of the editor, without the columns the run added
EditorColumns(df) ==
    [i \in 1..Len(df) |->
        [Month |-> df[i].Month,
         Rainfall_mm |-> df[i].Rainfall_mm,
         Rainy_Days |-> df[i].Rainy_Days]]

Twice(r) == RMul(Rat(2), r)

\* C8: on the table of the last run, the harvest for twice the roof area and
\* the harvest for twice the efficiency each have exactly twice every
\* monthly volume and twice the annual volume of the last run.
C8_HarvestLinearity ==
    LET table == EditorColumns(rain_df)
        byRoof == HarvestFrame(table, Twice(roof_area), efficiency)
        byEff == HarvestFrame(table, roof_area, Twice(efficiency))
    IN  /\ \A i \in 1..Len(rain_df) :
              /\ byRoof[i].Collected_L = Twice(rain_df[i].Collected_L)
              /\ byEff[i].Collected_L = Twice(rain_df[i].Collected_L)
        /\ AnnualVolumeL(byRoof) = Twice(annual_volume_l)
        /\ AnnualVolumeL(byEff) = Twice(annual_volume_l)

\* C8 witness: the default page, 243100 L, whose doubled roof yields 486200 L
C8_Witness ==
    /\ annual_volume_l = Rat(243100)
    /\ AnnualVolumeL(HarvestFrame(EditorColumns(rain_df), Twice(roof_area), efficiency))
          = Rat(486200)
    /\ rain_df[2].Collected_L = Norm(9775, 2)

\* C9: after any sequence of interactions every result on the page is what
\* one run of the script on the current widget values and the current table
\* yields, and the run's frame still holds the editor's 12 rows, in order,
\* with their month, rainfall and rainy-day values.
C9_Stateless ==
    LET fresh == ScriptRun(roof_area, efficiency, deg_coeff, service_years, rain_editor)
    IN  /\ rain_df = fresh.rain_df
        /\ annual_volume_l = fresh.annual_volume_l
        /\ annual_volume_m3 = fresh.annual_volume_m3
        /\ cumulative_rain_m_per_year = fresh.cumulative_rain_m_per_year
        /\ pvc_df = fresh.pvc_df
        /\ state = fresh.state
        /\ Len(rain_df) = 12
        /\ \A i \in 1..12 :
              /\ rain_df[i].Month = MonthNames[i]
              /\ rain_df[i].Rainfall_mm = CurrentRainfall_mm(i)
              /\ rain_df[i].Rainy_Days = CurrentRainyDays(i)

\* C9 witness: two cells edited and the widgets moved off their defaults
C9_Witness ==
    /\ Cardinality(DOMAIN rain_editor) = 2
    /\ roof_area = Rat(500)
    /\ service_years = 2
    /\ Len(pvc_df) = 2
    /\ CurrentRainyDays(1) = Rat(0)

\* the iterative scheme: one running total, each year's 12 values added in
\* sequence, the total recorded at year end
RECURSIVE AddYear(_, _, _)
AddYear(monthly, m, running) ==
    IF m > Len(monthly) THEN running
    ELSE AddYear(monthly, m + 1, RAdd(running, monthly[m]))

RECURSIVE IterativeSchemeFrom(_, _, _, _)
IterativeSchemeFrom(monthly, y, yrs, recorded) ==
    IF y > yrs THEN recorded
    ELSE LET running == IF recorded = <<>> THEN Rat(0) ELSE recorded[Len(recorded)]
         IN  IterativeSchemeFrom(monthly, y + 1, yrs,
                                 Append(recorded, AddYear(monthly, 1, running)))

IterativeScheme(monthly, yrs) == IterativeSchemeFrom(monthly, 1, yrs, <<>>)

\* the 12 values tiled yrs times end to end
Tiled(monthly, yrs) == AsArray([j \in 1..(12 * yrs) |-> monthly[((j - 1) % 12) + 1]])

\* C10: the projection has service_years entries, years 1, 2, ... in order;
\* the cumulative rainfall of year y is the prefix sum over the first 12*y
\* tiled values, which is the year-end total of the iterative scheme and y
\* times the annual total; the integrity of year y is 100 * e^(-k * that).
C10_ProjectionStructure ==
    LET monthly == AsArray([i \in 1..12 |-> RDiv(CurrentRainfall_mm(i), Rat(1000))])
        iter == IterativeScheme(monthly, service_years)
        prefix == NpCumsum(Tiled(monthly, service_years))
    IN  /\ Len(pvc_df) = service_years
        /\ Len(cumulative_rain_m_per_year) = service_years
        /\ \A y \in 1..service_years :
              /\ pvc_df[y].Year = y
              /\ cumulative_rain_m_per_year[y] = prefix[12 * y]
              /\ cumulative_rain_m_per_year[y] = iter[y]
              /\ cumulative_rain_m_per_year[y] =
                    RMul(Rat(y), RDiv(AnnualRainfall_mm, Rat(1000)))
              /\ pvc_df[y].Integrity =
                    [coef |-> 100,
                     exponent |-> RNeg(RMul(deg_coeff, cumulative_rain_m_per_year[y]))]

\* C10 witness: a three-year projection over the default table, whose third
\* year has seen 3 * 1.144 m of rain
C10_Witness ==
    /\ service_years = 3
    /\ Len(pvc_df) = 3
    /\ pvc_df[3].Year = 3
    /\ cumulative_rain_m_per_year[3] = Norm(3432, 1000)

=============================================================================
